---- MODULE Spec2Model ----
(***************************************************************************)
(* Voice emotion app (src/app.py): a Streamlit script.  Every user event   *)
(* in a browser session reruns main() from top to bottom.  The state is    *)
(* the per-session st.session_state and widget values, the temporary       *)
(* files on disk, and the process-wide st.cache_resource entry of          *)
(* load_emotion_model.  One action is one whole script run.                *)
(***************************************************************************)
EXTENDS Integers, Sequences, FiniteSets, TLC

\* ---------------------------------------------------------------- bounds
\* Records held in all sessions together.
MaxResults == 2
\* Temporary files that may be left on disk.
MaxTmpFiles == 2
\* A score is the float k / ScoreUnits, 0 <= k <= ScoreUnits.
ScoreUnits == 8

\* ------------------------------------------------------ program constants
FrameRate == 16000
Channels == 1

\* ------------------------------------------------------------ value sets
Sessions == {"s1", "s2"}

\* Python's None / an optional value: the empty or the one-element sequence.
None == <<>>
Some(x) == <<x>>

\* Uploads: the name Streamlit reports and the audio the bytes decode to.
Files ==
  { [name |-> "a.wav", format |-> "wav", frame_rate |-> 16000, channels |-> 1],
    [name |-> "b.mp3", format |-> "mp3", frame_rate |-> 44100, channels |-> 2] }

\* Temporary file names tempfile may pick.
Paths == 1 .. (MaxTmpFiles + 1)

\* A label is its sequence of characters.
Angry == <<"a", "n", "g", "r", "y">>
SadTitle == <<"S", "a", "d">>
Calm == <<"c", "a", "l", "m">>

\* What the opaque classifier may do with a file: raise, or return a list
\* of predictions (possibly empty), best first.
ClassifierOutcomes ==
  { [raises |-> TRUE, preds |-> <<>>],
    [raises |-> FALSE, preds |-> <<>>],
    [raises |-> FALSE, preds |-> << [label |-> Angry, score |-> 7],
                                    [label |-> SadTitle, score |-> 1] >>],
    [raises |-> FALSE, preds |-> << [label |-> SadTitle, score |-> 5],
                                    [label |-> Angry, score |-> 3] >>],
    [raises |-> FALSE, preds |-> << [label |-> Calm, score |-> ScoreUnits] >>] }

\* ----------------------------------------------------------- conversions
\* str.lower() / str.upper() on the characters the labels use.
LowerChar(c) ==
  CASE c = "A" -> "a" [] c = "S" -> "s" [] c = "C" -> "c" [] c = "N" -> "n"
    [] c = "G" -> "g" [] c = "R" -> "r" [] c = "Y" -> "y" [] c = "D" -> "d"
    [] c = "L" -> "l" [] c = "M" -> "m" [] OTHER -> c

UpperChar(c) ==
  CASE c = "a" -> "A" [] c = "s" -> "S" [] c = "c" -> "C" [] c = "n" -> "N"
    [] c = "g" -> "G" [] c = "r" -> "R" [] c = "y" -> "Y" [] c = "d" -> "D"
    [] c = "l" -> "L" [] c = "m" -> "M" [] OTHER -> c

Lower(str) == [i \in 1 .. Len(str) |-> LowerChar(str[i])]

Upper(str) == [i \in 1 .. Len(str) |-> UpperChar(str[i])]

\* f"{score:.0%}": score * 100 rounded to an integer, ties to even; the
\* text "N%" is represented by N.
FormatPercent(score) ==
  LET n == 100 * score
      q == n \div ScoreUnits
      r == n % ScoreUnits
  IN  IF 2 * r > ScoreUnits THEN q + 1
      ELSE IF 2 * r < ScoreUnits THEN q
      ELSE IF q % 2 = 0 THEN q ELSE q + 1

\* ----------------------------------------------------------- process_audio
FromFile(f) == [frame_rate |-> f.frame_rate, channels |-> f.channels]

SetFrameRate(audio, rate) == [audio EXCEPT !.frame_rate = rate]

SetChannels(audio, n) == [audio EXCEPT !.channels = n]

Export(audio, fmt) ==
  [format |-> fmt, frame_rate |-> audio.frame_rate, channels |-> audio.channels]

\* Faulty variant: set_channels(1) is missing.
process_audio_keep_channels(f) ==
  Export(SetFrameRate(FromFile(f), FrameRate), "wav")

\* The content written to the temporary file.
process_audio(f) ==
  Export(SetChannels(SetFrameRate(FromFile(f), FrameRate), Channels), "wav")

\* ------------------------------------------------------------------ state
VARIABLES
  session_state,     \* per session: the keys set in st.session_state, and results
  uploaded_file,     \* per session: the value of the file_uploader widget
  download_offered,  \* per session: the page shows the export button
  tmpfiles,          \* the temporary files that exist on disk
  model_cached,      \* st.cache_resource holds the classifier
  lastRun            \* what the most recent script run did and rendered

vars ==
  <<session_state, uploaded_file, download_offered, tmpfiles, model_cached, lastRun>>

NoRun ==
  [session |-> "", clicked |-> FALSE, processed_path |-> None,
   classified |-> None, outcome |-> None, appended |-> None,
   success |-> FALSE, error |-> FALSE, aborted |-> FALSE,
   panel |-> None, chart |-> "none", history |-> None, csv |-> None]

Init ==
  /\ session_state = [s \in Sessions |-> [keys |-> {}, results |-> <<>>]]
  /\ uploaded_file = [s \in Sessions |-> None]
  /\ download_offered = [s \in Sessions |-> FALSE]
  /\ tmpfiles = {}
  /\ model_cached = FALSE
  /\ lastRun = NoRun

\* ------------------------------------------------------------ main: state
\* Faulty variant: the list is reset on every run (the `if` is missing).
InitSessionStateAlways(st) ==
  [keys |-> st.keys \cup {"results"}, results |-> <<>>]

\* if 'results' not in st.session_state: st.session_state.results = []
InitSessionState(st) ==
  IF "results" \in st.keys THEN st
  ELSE [keys |-> st.keys \cup {"results"}, results |-> <<>>]

\* Faulty variant: the record is built from the last prediction, not preds[0].
MakeResultLastPred(f, preds) ==
  [file |-> f.name,
   emotion |-> preds[Len(preds)].label,
   confidence |-> FormatPercent(preds[Len(preds)].score),
   score |-> preds[Len(preds)].score]

\* The record built from the upload and the classifier's answer.
MakeResult(f, preds) ==
  [file |-> f.name,
   emotion |-> preds[1].label,
   confidence |-> FormatPercent(preds[1].score),
   score |-> preds[1].score]

\* Faulty variant: a record equal to one already in the list is not added.
AppendResultDedup(ss, s, result) ==
  IF \E i \in 1 .. Len(ss[s].results) : ss[s].results[i] = result
    THEN ss
  ELSE [ss EXCEPT ![s].results = Append(@, result)]

\* Faulty variant: the list is one module-level list shared by the sessions.
AppendResultShared(ss, s, result) ==
  [t \in Sessions |->
     IF "results" \in ss[t].keys
       THEN [ss[t] EXCEPT !.results = Append(@, result)]
     ELSE ss[t]]

\* st.session_state.results.append(result), in the session running the script.
AppendResult(ss, s, result) ==
  [ss EXCEPT ![s].results = Append(@, result)]

\* The body of the Analyze button's branch, for upload f and temporary file
\* p: what it leaves behind.  decodeOk: AudioSegment.from_file and export do
\* not raise; loadOk: pipeline(...) does not raise when the cache is empty;
\* out: what the classifier does; unlinkOk: os.unlink does not raise.
Analyze(f, p, cached, decodeOk, loadOk, out, unlinkOk) ==
  LET base == [processed_path |-> None, classified |-> None, outcome |-> None,
               appended |-> None, success |-> FALSE, error |-> FALSE,
               aborted |-> FALSE, leftover |-> {p}, cached |-> cached]
  IN  IF ~decodeOk
        THEN [base EXCEPT !.aborted = TRUE]
      ELSE IF ~cached /\ ~loadOk
        THEN [base EXCEPT !.processed_path = Some(p), !.aborted = TRUE]
      ELSE
        LET called == [base EXCEPT
                         !.processed_path = Some(p),
                         !.cached = TRUE,
                         !.classified = Some([path |-> p, content |-> process_audio(f)]),
                         !.outcome = Some(out)]
        IN  IF out.raises \/ out.preds = <<>>
              THEN [called EXCEPT !.error = TRUE]
            ELSE [called EXCEPT
                    !.appended = Some(MakeResult(f, out.preds)),
                    !.success = TRUE,
                    !.error = ~unlinkOk,
                    !.leftover = IF unlinkOk THEN {} ELSE {p}]

\* ---------------------------------------------------------- main: display
Happy == <<"h", "a", "p", "p", "y">>
SadLower == <<"s", "a", "d">>
Neutral == <<"n", "e", "u", "t", "r", "a", "l">>

\* {...}.get(latest['emotion'].lower(), "#7E7E7E")
EmotionColor(emotion) ==
  LET key == Lower(emotion)
  IN  CASE key = Angry -> "#FF4B4B"
        [] key = Happy -> "#00D26A"
        [] key = SadLower -> "#1C83E1"
        [] key = Neutral -> "#7E7E7E"
        [] OTHER -> "#7E7E7E"

Latest(results) == results[Len(results)]

\* The "Current Results" box.
Panel(results) ==
  IF results = <<>> THEN None
  ELSE Some([emotion |-> Upper(Latest(results).emotion),
             confidence |-> Latest(results).confidence,
             color |-> EmotionColor(Latest(results).emotion)])

\* Under "Emotion Distribution": the pie chart or the hint.
Chart(results) ==
  IF results = <<>> THEN "none"
  ELSE IF Len(results) > 1 THEN "pie"
  ELSE "hint"

\* Faulty variant: the rows are left in the order of the list.
HistoryTableAscending(results) ==
  IF results = <<>> THEN None
  ELSE Some([i \in 1 .. Len(results) |->
               <<results[i].file, results[i].emotion, results[i].confidence>>])

\* history_df[['file', 'emotion', 'confidence']].sort_index(ascending=False)
HistoryTable(results) ==
  IF results = <<>> THEN None
  ELSE Some([i \in 1 .. Len(results) |->
               LET r == results[Len(results) + 1 - i]
               IN  <<r.file, r.emotion, r.confidence>>])

CsvHeader == <<"file", "emotion", "confidence", "score">>

\* history_df.to_csv(index=False): the header line, then one line per row.
ToCsv(results) ==
  IF results = <<>> THEN None
  ELSE Some(<<CsvHeader>> \o
            [i \in 1 .. Len(results) |->
               LET r == results[i]
               IN  <<r.file, r.emotion, r.confidence, r.score>>])

\* ------------------------------------------------------------ script runs
Results(s) == session_state[s].results

RECURSIVE TotalResults(_)
TotalResults(S) ==
  IF S = {} THEN 0
  ELSE LET s == CHOOSE x \in S : TRUE
       IN  Len(Results(s)) + TotalResults(S \ {s})

\* A run in which the Analyze branch is not entered.
NoAnalysis ==
  [processed_path |-> None, classified |-> None, outcome |-> None,
   appended |-> None, success |-> FALSE, error |-> FALSE, aborted |-> FALSE,
   leftover |-> {}, cached |-> model_cached]

\* One run of main() in session s with the uploader holding up; a is what
\* the Analyze branch did.  A run that an uncaught exception aborts renders
\* nothing below the controls.
ScriptRun(s, up, clicked, a) ==
  LET ss1 == [session_state EXCEPT ![s] = InitSessionState(@)]
      ss2 == IF a.appended # None THEN AppendResult(ss1, s, a.appended[1]) ELSE ss1
      res == ss2[s].results
  IN  /\ uploaded_file' = [uploaded_file EXCEPT ![s] = up]
      /\ session_state' = ss2
      /\ tmpfiles' = tmpfiles \cup a.leftover
      /\ model_cached' = a.cached
      /\ download_offered' =
           [download_offered EXCEPT ![s] = ~a.aborted /\ ToCsv(res) # None]
      /\ lastRun' =
           [session |-> s, clicked |-> clicked,
            processed_path |-> a.processed_path, classified |-> a.classified,
            outcome |-> a.outcome, appended |-> a.appended,
            success |-> a.success, error |-> a.error, aborted |-> a.aborted,
            panel |-> IF a.aborted THEN None ELSE Panel(res),
            chart |-> IF a.aborted THEN "none" ELSE Chart(res),
            history |-> IF a.aborted THEN None ELSE HistoryTable(res),
            csv |-> IF a.aborted THEN None ELSE ToCsv(res)]

\* The session's first run, or a rerun with no widget changed.
Rerun(s) ==
  ScriptRun(s, uploaded_file[s], FALSE, NoAnalysis)

\* The user puts file f in the uploader (rendered by an earlier run).
Upload(s, f) ==
  /\ "results" \in session_state[s].keys
  /\ ScriptRun(s, Some(f), FALSE, NoAnalysis)

\* The user removes the uploaded file.
Remove(s) ==
  /\ uploaded_file[s] # None
  /\ ScriptRun(s, None, FALSE, NoAnalysis)

\* The user clicks the export button.
ClickExport(s) ==
  /\ download_offered[s]
  /\ ScriptRun(s, uploaded_file[s], FALSE, NoAnalysis)

\* The ways an Analyze run can go, each listed once: an input the run never
\* reads is fixed (a failed decode never reaches the classifier or os.unlink).
AnalyzeInputs ==
  { i \in [decodeOk : BOOLEAN, loadOk : BOOLEAN,
           out : ClassifierOutcomes, unlinkOk : BOOLEAN] :
      LET appends == ~i.out.raises /\ i.out.preds # <<>>
          first == CHOOSE o \in ClassifierOutcomes : o.raises
      IN  /\ ~i.decodeOk => i.loadOk
          /\ (~i.decodeOk \/ ~i.loadOk) => i.out = first
          /\ ~(i.decodeOk /\ i.loadOk /\ appends) => i.unlinkOk }

\* tempfile picks a name no existing file has; the temporary files are
\* numbered, and the lowest free number stands for the fresh name.
FreshPath ==
  CHOOSE p \in Paths \ tmpfiles : \A q \in Paths \ tmpfiles : p <= q

\* The user clicks "Analyze Emotion" (rendered whenever a file is uploaded).
ClickAnalyze(s) ==
  /\ uploaded_file[s] # None
  /\ \E p \in {FreshPath}, i \in AnalyzeInputs :
       LET a == Analyze(uploaded_file[s][1], p, model_cached,
                        i.decodeOk, i.loadOk, i.out, i.unlinkOk)
       IN  /\ a.appended # None => TotalResults(Sessions) < MaxResults
           /\ a.leftover # {} => Cardinality(tmpfiles) < MaxTmpFiles
           /\ ScriptRun(s, uploaded_file[s], TRUE, a)

Next ==
  \E s \in Sessions :
    \/ Rerun(s)
    \/ \E f \in Files : Upload(s, f)
    \/ Remove(s)
    \/ ClickExport(s)
    \/ ClickAnalyze(s)

Spec == Init /\ [][Next]_vars

\* ----------------------------------------------------------------- claims
IsPrefix(a, b) ==
  /\ Len(a) <= Len(b)
  /\ \A i \in 1 .. Len(a) : b[i] = a[i]

\* The session of the most recent run, once a run has happened.
Ran == lastRun.session \in Sessions

\* C1: session results is append-only.  In every step, each session's new
\* results has the old one as a prefix and is at most one record longer, and
\* a run that reports success has appended exactly its record at the end,
\* also when an equal record is already in the list.
C1_AppendOnly ==
  [][\A s \in Sessions :
       /\ IsPrefix(session_state[s].results, session_state'[s].results)
       /\ Len(session_state'[s].results) <= Len(session_state[s].results) + 1
       /\ (lastRun'.session = s /\ lastRun'.success) =>
            /\ lastRun'.appended # None
            /\ session_state'[s].results =
                 session_state[s].results \o lastRun'.appended]_vars

\* C1 witness: the same file analysed twice with the same answer, both kept.
C1_Witness ==
  /\ Ran
  /\ lastRun.success
  /\ Len(Results(lastRun.session)) = 2
  /\ Results(lastRun.session)[1] = Results(lastRun.session)[2]

\* C2: after a run that reports success, the last record has the uploaded
\* file's name, the label and the score of the first prediction the
\* classifier returned, and the panel rendered by that run shows that
\* record: its label (upper-cased) and its confidence.
C2_DisplaysFirstPrediction ==
  (Ran /\ lastRun.success) =>
    LET s == lastRun.session
        rec == Results(s)[Len(Results(s))]
        first == lastRun.outcome[1].preds[1]
    IN  /\ Results(s) # <<>>
        /\ rec.file = uploaded_file[s][1].name
        /\ rec.emotion = first.label
        /\ rec.score = first.score
        /\ Len(lastRun.panel) = 1
        /\ lastRun.panel[1].emotion = Upper(first.label)
        /\ lastRun.panel[1].confidence = rec.confidence

\* C2 witness: a successful analysis of b.mp3 for which the classifier
\* returned two predictions.
C2_Witness ==
  /\ Ran
  /\ lastRun.success
  /\ Len(lastRun.outcome[1].preds) = 2
  /\ uploaded_file[lastRun.session][1].name = "b.mp3"

\* C3: the classifier is called only after process_audio has returned, with
\* the path process_audio returned, and the file at that path is WAV,
\* 16000 Hz, one channel, whatever the upload was.
C3_ClassifierGetsReencodedFile ==
  /\ lastRun.outcome # None => lastRun.classified # None
  /\ lastRun.classified # None =>
       /\ lastRun.clicked
       /\ lastRun.processed_path # None
       /\ lastRun.classified[1].path = lastRun.processed_path[1]
       /\ lastRun.classified[1].content.format = "wav"
       /\ lastRun.classified[1].content.frame_rate = 16000
       /\ lastRun.classified[1].content.channels = 1

\* C3 witness: the classifier was called for the stereo 44100 Hz mp3 upload.
C3_Witness ==
  /\ Ran
  /\ lastRun.classified # None
  /\ uploaded_file[lastRun.session][1].format = "mp3"
  /\ uploaded_file[lastRun.session][1].channels = 2
  /\ uploaded_file[lastRun.session][1].frame_rate = 44100

\* C4: after every run, if the session's results is non-empty the export is
\* offered and holds the header and one row per record, in order, with the
\* record's file, emotion, confidence and score; if it is empty, neither
\* the export nor the history table is offered.
C4_ExportMatchesResults ==
  Ran =>
    LET res == Results(lastRun.session)
    IN  /\ res # <<>> =>
             /\ lastRun.csv # None
             /\ Len(lastRun.csv[1]) = Len(res) + 1
             /\ \A i \in 1 .. Len(res) :
                  lastRun.csv[1][i + 1] =
                    <<res[i].file, res[i].emotion, res[i].confidence, res[i].score>>
        /\ res = <<>> => (lastRun.csv = None /\ lastRun.history = None)

\* C5: a session's results starts as the empty list on its first run (the
\* key is then set and stays set), and a run that does not report success
\* leaves the results as they were.
C5_ResultsPersist ==
  [][\A s \in Sessions :
       /\ ("results" \notin session_state[s].keys /\ lastRun'.session = s) =>
            /\ "results" \in session_state'[s].keys
            /\ session_state'[s].results = <<>>
       /\ "results" \in session_state[s].keys =>
            /\ "results" \in session_state'[s].keys
            /\ ~(lastRun'.session = s /\ lastRun'.success) =>
                 session_state'[s].results = session_state[s].results]_vars

\* C5 witness: an analysis failed in a session that holds a record.
C5_Witness ==
  /\ Ran
  /\ lastRun.clicked
  /\ lastRun.error
  /\ ~lastRun.success
  /\ Results(lastRun.session) # <<>>

\* C6: a run in one session changes nothing of another session (results,
\* upload, page), the record it produces is appended to its own results,
\* and the history table and export it renders have one row per record of
\* its own results.
C6_SessionIsolation ==
  [][LET s == lastRun'.session
     IN  /\ \A t \in Sessions \ {s} :
              /\ session_state'[t] = session_state[t]
              /\ uploaded_file'[t] = uploaded_file[t]
              /\ download_offered'[t] = download_offered[t]
         /\ lastRun'.appended # None =>
              session_state'[s].results =
                session_state[s].results \o lastRun'.appended
         /\ lastRun'.history # None =>
              \A i \in 1 .. Len(session_state'[s].results) :
                lastRun'.history[1][Len(session_state'[s].results) + 1 - i][1] =
                  session_state'[s].results[i].file
         /\ lastRun'.csv # None =>
              /\ Len(lastRun'.csv[1]) = Len(session_state'[s].results) + 1
              /\ \A i \in 1 .. Len(session_state'[s].results) :
                   lastRun'.csv[1][i + 1][1] = session_state'[s].results[i].file]_vars

\* C6 witness: both sessions hold a record, of different files, while the
\* classifier is cached.
C6_Witness ==
  /\ model_cached
  /\ \A s \in Sessions : Len(Results(s)) = 1
  /\ Results("s1")[1].file # Results("s2")[1].file

\* C7: the history table, when rendered, has one row per record, holding
\* the record's file, emotion and confidence, the latest record first and
\* the oldest last; it is rendered together with the panel, and its first
\* row is the record the panel shows.
C7_HistoryReversed ==
  Ran =>
    LET res == Results(lastRun.session)
    IN  /\ (lastRun.history = None) <=> (lastRun.panel = None)
        /\ lastRun.history # None =>
             LET rows == lastRun.history[1]
             IN  /\ Len(rows) = Len(res)
                 /\ \A i \in 1 .. Len(res) :
                      rows[i] = <<res[Len(res) + 1 - i].file,
                                  res[Len(res) + 1 - i].emotion,
                                  res[Len(res) + 1 - i].confidence>>
                 /\ lastRun.panel[1].emotion = Upper(rows[1][2])
                 /\ lastRun.panel[1].confidence = rows[1][3]

\* C7 witness: a table of two different records.
C7_Witness ==
  /\ Ran
  /\ lastRun.history # None
  /\ Len(lastRun.history[1]) = 2
  /\ lastRun.history[1][1] # lastRun.history[1][2]

\* C8: an Analyze run reports success or an error (an uncaught exception
\* counts as an error report), never both, and it appends a record exactly
\* when it reports success.
C8_SuccessXorError ==
  (Ran /\ lastRun.clicked) =>
    LET failed == lastRun.error \/ lastRun.aborted
    IN  /\ lastRun.success \/ failed
        /\ ~(lastRun.success /\ failed)
        /\ (lastRun.appended # None) <=> lastRun.success

\* C9: no temporary file is left on disk after a run.
C9_NoLeftoverTmpFiles ==
  tmpfiles = {}

\* C10: after every run, the panel is rendered exactly when the session's
\* results is non-empty; the pie chart exactly when it holds two records or
\* more, the hint when it holds one; and the panel's colour is the one
\* mapped to the lower-cased latest label, grey for an unmapped label.
C10_DisplayGating ==
  Ran =>
    LET res == Results(lastRun.session)
    IN  /\ (lastRun.panel # None) <=> (res # <<>>)
        /\ (lastRun.chart = "pie") <=> (Len(res) >= 2)
        /\ (lastRun.chart = "hint") <=> (Len(res) = 1)
        /\ res # <<>> =>
             LET key == Lower(res[Len(res)].emotion)
             IN  lastRun.panel[1].color =
                   CASE key = <<"a", "n", "g", "r", "y">> -> "#FF4B4B"
                     [] key = <<"h", "a", "p", "p", "y">> -> "#00D26A"
                     [] key = <<"s", "a", "d">> -> "#1C83E1"
                     [] OTHER -> "#7E7E7E"
====
